---- MODULE Spec2Model ----
(***************************************************************************)
(* Model of cc_parser_python.py: the CreditCardParser class (text          *)
(* extraction, the issuer detector, the four pattern-list extractors,      *)
(* parse and save_json), the directory driver parse_multiple_statements    *)
(* and the single-file branch of main.                                     *)
(*                                                                         *)
(* A Python str is a sequence of characters; a character is a one-letter   *)
(* string, except the two non-ASCII characters of the source, which are    *)
(* the atoms RUPEE and ENDASH.  Regular expressions are syntax trees run   *)
(* by a backtracking matcher that follows the priority rules of re.search  *)
(* (leftmost start, ordered alternation, greedy repetition).               *)
(***************************************************************************)
EXTENDS Integers, Sequences, FiniteSets, TLC

(***************************************************************************)
(* Bounds of the explored inputs.                                          *)
(***************************************************************************)
MaxDocs == 2        \* documents in the directory of a directory run
MaxPages == 2       \* pages per document in a directory run
MaxFilePages == 2   \* pages of the document of a single-file run

(***************************************************************************)
(* Characters and strings.                                                 *)
(***************************************************************************)
\* the characters of a string literal, as a sequence
Chars(s) == <<>> \o [i \in 1..Len(s) |-> SubSeq(s, i, i)]

RUPEE == "<rupee>"
ENDASH == "<endash>"
NL == "\n"

\* Python's None: not a str (no str holds a character of this shape).
None == <<"<None>">>

UpperLetters == Chars("ABCDEFGHIJKLMNOPQRSTUVWXYZ")
LowerLetters == Chars("abcdefghijklmnopqrstuvwxyz")

UpperSet == {UpperLetters[i] : i \in 1..26}
LowerSet == {LowerLetters[i] : i \in 1..26}
Letters == UpperSet \cup LowerSet
Digits == {"0", "1", "2", "3", "4", "5", "6", "7", "8", "9"}
\* \d, \w and \s of the re module, over the characters of the model
ClassD == Digits
ClassW == Letters \cup Digits \cup {"_"}
ClassS == {" ", NL, "\t"}

\* str.lower on one character, and on a string
Lower(c) ==
    IF c \in UpperSet
    THEN LowerLetters[CHOOSE i \in 1..26 : UpperLetters[i] = c]
    ELSE c

LowerStr(s) == <<>> \o [k \in 1..Len(s) |-> Lower(s[k])]

\* str.upper on one character, and on a string
Upper(c) ==
    IF c \in LowerSet
    THEN UpperLetters[CHOOSE i \in 1..26 : LowerLetters[i] = c]
    ELSE c

UpperStr(s) == <<>> \o [k \in 1..Len(s) |-> Upper(s[k])]

\* a variant of StripCommas: str.replace(',', '', 1), only the first comma
RECURSIVE StripFirstComma(_)
StripFirstComma(s) ==
    IF s = <<>> THEN <<>>
    ELSE IF Head(s) = "," THEN Tail(s)
    ELSE <<Head(s)>> \o StripFirstComma(Tail(s))

\* str.replace(',', '')
RECURSIVE StripCommas(_)
StripCommas(s) ==
    IF s = <<>> THEN <<>>
    ELSE IF Head(s) = "," THEN StripCommas(Tail(s))
    ELSE <<Head(s)>> \o StripCommas(Tail(s))

\* '\n'.join(text_parts); a None among the parts raises TypeError
RECURSIVE JoinNL(_)
JoinNL(parts) ==
    IF parts = <<>> THEN <<>>
    ELSE IF Len(parts) = 1 THEN parts[1]
    ELSE parts[1] \o <<NL>> \o JoinNL(Tail(parts))

JoinRaises(parts) == \E k \in 1..Len(parts) : parts[k] = None

(***************************************************************************)
(* Regular expressions.                                                    *)
(***************************************************************************)
INF == 0 - 1

\* a character set and a literal carry their case-folded form (sl) too
Chr(S) == [t |-> "chr", s |-> S, sl |-> {Lower(d) : d \in S}]
Lit(str) == [t |-> "lit", s |-> Chars(str), sl |-> LowerStr(Chars(str))]
Cat(rs) == [t |-> "seq", r |-> rs]
Alt(rs) == [t |-> "alt", r |-> rs]
Rep(r, lo, hi) == [t |-> "rep", r |-> r, lo |-> lo, hi |-> hi]
Grp(n, r) == [t |-> "grp", n |-> n, r |-> r]
Star(r) == Rep(r, 0, INF)
Plus(r) == Rep(r, 1, INF)
Opt(r) == Rep(r, 0, 1)

\* the literal lit at position i of text
LitAt(text, lit, i) ==
    /\ i + Len(lit) - 1 <= Len(text)
    /\ \A k \in 1..Len(lit) : text[i + k - 1] = lit[k]

\* The backtracking matcher.  A matcher state st is [end, caps]: the position
\* after the part matched so far and the groups captured so far.
\* Ends(re, text, st, ic) lists the states in which re can finish when it
\* starts in st, in the order in which backtracking tries them (alternatives
\* left to right, repetitions greedy).  Under re.IGNORECASE (ic) text is the
\* case-folded subject and is compared with the case-folded pattern.
RECURSIVE Ends(_, _, _, _), SeqEnds(_, _, _, _, _), EachEnds(_, _, _, _, _),
          AltEnds(_, _, _, _, _), RepEnds(_, _, _, _, _, _),
          EachRep(_, _, _, _, _, _, _)
Ends(re, text, st, ic) ==
    CASE re.t = "chr" ->
           IF st.end <= Len(text) /\ text[st.end] \in (IF ic THEN re.sl ELSE re.s)
           THEN <<[st EXCEPT !.end = st.end + 1]>>
           ELSE <<>>
      [] re.t = "lit" ->
           IF LitAt(text, IF ic THEN re.sl ELSE re.s, st.end)
           THEN <<[st EXCEPT !.end = st.end + Len(re.s)]>>
           ELSE <<>>
      [] re.t = "seq" -> SeqEnds(re.r, 1, text, <<st>>, ic)
      [] re.t = "alt" -> AltEnds(re.r, 1, text, st, ic)
      [] re.t = "rep" -> RepEnds(re.r, re.lo, re.hi, text, st, ic)
      [] re.t = "grp" ->
           LET es == Ends(re.r, text, st, ic)
           IN <<>> \o [j \in 1..Len(es) |->
                        [es[j] EXCEPT !.caps[re.n] = <<st.end, es[j].end - 1>>]]
\* the elements rs[k], rs[k+1], ... in sequence, from each of the states sts
SeqEnds(rs, k, text, sts, ic) ==
    IF k > Len(rs) \/ sts = <<>> THEN sts
    ELSE SeqEnds(rs, k + 1, text, EachEnds(rs[k], text, sts, 1, ic), ic)
EachEnds(re, text, sts, j, ic) ==
    IF j > Len(sts) THEN <<>>
    ELSE Ends(re, text, sts[j], ic) \o EachEnds(re, text, sts, j + 1, ic)
\* the alternatives alts[k], alts[k+1], ... in order
AltEnds(alts, k, text, st, ic) ==
    IF k > Len(alts) THEN <<>>
    ELSE Ends(alts[k], text, st, ic) \o AltEnds(alts, k + 1, text, st, ic)
\* between lo and hi repetitions of r, the longest first
RepEnds(r, lo, hi, text, st, ic) ==
    IF hi = 0 THEN <<st>>
    ELSE LET lo1 == IF lo > 0 THEN lo - 1 ELSE 0
             hi1 == IF hi = INF THEN INF ELSE hi - 1
         IN EachRep(r, lo1, hi1, text, Ends(r, text, st, ic), 1, ic)
            \o (IF lo = 0 THEN <<st>> ELSE <<>>)
EachRep(r, lo, hi, text, sts, j, ic) ==
    IF j > Len(sts) THEN <<>>
    ELSE RepEnds(r, lo, hi, text, sts[j], ic)
         \o EachRep(r, lo, hi, text, sts, j + 1, ic)

NoMatch == [ok |-> FALSE, start |-> 0, caps |-> <<>>]

\* whether the pattern matches when anchored at position i of subject
MatchesAt(re, subject, i, ic) ==
    Ends(re, subject, [end |-> i, caps |-> <<<<1, 0>>, <<1, 0>>>>], ic) # <<>>

\* the match object of the pattern anchored at position i: group(1), group(2)
MatchAt(re, text, subject, i, ic) ==
    LET es == Ends(re, subject, [end |-> i, caps |-> <<<<1, 0>>, <<1, 0>>>>], ic)
    IN [ok |-> TRUE, start |-> i,
        caps |-> [n \in 1..2 |-> SubSeq(text, es[1].caps[n][1], es[1].caps[n][2])]]

\* whether the pattern can match the empty string, and the characters a
\* non-empty match of it can begin with: what lets the search skip the
\* positions at which no match can start
RECURSIVE Nullable(_), FirstSet(_, _)
Nullable(re) ==
    CASE re.t = "chr" -> FALSE
      [] re.t = "lit" -> re.s = <<>>
      [] re.t = "seq" -> \A k \in 1..Len(re.r) : Nullable(re.r[k])
      [] re.t = "alt" -> \E k \in 1..Len(re.r) : Nullable(re.r[k])
      [] re.t = "rep" -> re.lo = 0 \/ Nullable(re.r)
      [] re.t = "grp" -> Nullable(re.r)
FirstSet(re, ic) ==
    CASE re.t = "chr" -> IF ic THEN re.sl ELSE re.s
      [] re.t = "lit" ->
           IF re.s = <<>> THEN {} ELSE {IF ic THEN re.sl[1] ELSE re.s[1]}
      [] re.t = "seq" ->
           UNION {FirstSet(re.r[k], ic) :
                    k \in {n \in 1..Len(re.r) : \A m \in 1..(n - 1) : Nullable(re.r[m])}}
      [] re.t = "alt" -> UNION {FirstSet(re.r[k], ic) : k \in 1..Len(re.r)}
      [] re.t = "rep" -> IF re.hi = 0 THEN {} ELSE FirstSet(re.r, ic)
      [] re.t = "grp" -> FirstSet(re.r, ic)

\* the leftmost position in lo..hi at which the pattern matches, 0 if none
\* (the positions are tried from left to right, by halving the interval);
\* first and nullable are FirstSet and Nullable of the pattern
RECURSIVE FirstStart(_, _, _, _, _, _, _)
FirstStart(re, subject, lo, hi, ic, first, nullable) ==
    IF lo = hi
    THEN (IF /\ nullable \/ (lo <= Len(subject) /\ subject[lo] \in first)
             /\ MatchesAt(re, subject, lo, ic)
          THEN lo ELSE 0)
    ELSE LET mid == (lo + hi) \div 2
             l == FirstStart(re, subject, lo, mid, ic, first, nullable)
         IN IF l # 0 THEN l
            ELSE FirstStart(re, subject, mid + 1, hi, ic, first, nullable)

\* re.search(pattern, text, flags): the match at the leftmost start position
Search(re, text, ic) ==
    LET subject == IF ic THEN LowerStr(text) ELSE text
        start == FirstStart(re, subject, 1, Len(text) + 1, ic,
                            FirstSet(re, ic), Nullable(re))
    IN IF start = 0 THEN NoMatch ELSE MatchAt(re, text, subject, start, ic)

(***************************************************************************)
(* The patterns of the source, transcribed element by element.             *)
(***************************************************************************)
WS == Star(Chr(ClassS))                   \* \s*
WSColon == Star(Chr(ClassS \cup {":"}))   \* [\s:]*
WSDash == Star(Chr(ClassS \cup {"-"}))    \* [\s-]*
Sep == Chr({"-", "/"})                    \* [-/]
Stars(n) == Rep(Chr({"*"}), n, n)         \* \*{n}
D(lo, hi) == Rep(Chr(ClassD), lo, hi)     \* \d{lo,hi}

\* ISSUERS, in the insertion order of the dict
ISSUERS == <<
    [issuer |-> Chars("HDFC"),
     pattern |-> Cat(<<Lit("HDFC"), WS, Lit("Bank")>>)],
    [issuer |-> Chars("ICICI"),
     pattern |-> Cat(<<Lit("ICICI"), WS, Lit("Bank")>>)],
    [issuer |-> Chars("SBI"),
     pattern |-> Alt(<<Cat(<<Lit("SBI"), WS, Lit("Card")>>),
                       Cat(<<Lit("State"), WS, Lit("Bank")>>)>>)],
    [issuer |-> Chars("AXIS"),
     pattern |-> Cat(<<Lit("Axis"), WS, Lit("Bank")>>)],
    [issuer |-> Chars("AMEX"),
     pattern |-> Alt(<<Cat(<<Lit("American"), WS, Lit("Express")>>),
                       Lit("AMEX")>>)] >>

\* (?:XXXX|xxxx|\*{4}|\*{12})
Mask12 == Alt(<<Lit("XXXX"), Lit("xxxx"), Stars(4), Stars(12)>>)
\* (?:XXXX|xxxx|\*{4})
Mask4 == Alt(<<Lit("XXXX"), Lit("xxxx"), Stars(4)>>)

Last4Patterns == <<
    \* Card\s*(?:Number|No\.?)[\s:]*(?:XXXX|xxxx|\*{4}|\*{12})[\s-]*(\d{4})
    Cat(<<Lit("Card"), WS,
          Alt(<<Lit("Number"), Cat(<<Lit("No"), Opt(Chr({"."}))>>)>>),
          WSColon, Mask12, WSDash, Grp(1, D(4, 4))>>),
    \* (?:XXXX|xxxx|\*{4}|\*{12})[\s-]*(\d{4})
    Cat(<<Mask12, WSDash, Grp(1, D(4, 4))>>),
    \* Card\s*ending\s*(?:in|with)[\s:]*(\d{4})
    Cat(<<Lit("Card"), WS, Lit("ending"), WS, Alt(<<Lit("in"), Lit("with")>>),
          WSColon, Grp(1, D(4, 4))>>),
    \* (?:Primary|Credit)\s*Card[\s:]*(?:XXXX|xxxx|\*{4})[\s-]*(\d{4})
    Cat(<<Alt(<<Lit("Primary"), Lit("Credit")>>), WS, Lit("Card"),
          WSColon, Mask4, WSDash, Grp(1, D(4, 4))>>) >>

\* \d{1,2}[-/]\w{3}[-/]\d{2,4}
Date3 == Cat(<<D(1, 2), Sep, Rep(Chr(ClassW), 3, 3), Sep, D(2, 4)>>)
\* \d{1,2}[-/]\w{3,}[-/]\d{2,4}
Date3Plus == Cat(<<D(1, 2), Sep, Rep(Chr(ClassW), 3, INF), Sep, D(2, 4)>>)
\* \d{1,2}[-/]\d{1,2}[-/]\d{2,4}
DateNum == Cat(<<D(1, 2), Sep, D(1, 2), Sep, D(2, 4)>>)

BillingPatterns == <<
    \* (?:Billing\s*(?:Cycle|Period|Date)[\s:]*)?(date)\s*(?:to|-|-|through)\s*(date)
    Cat(<<Opt(Cat(<<Lit("Billing"), WS,
                    Alt(<<Lit("Cycle"), Lit("Period"), Lit("Date")>>), WSColon>>)),
          Grp(1, Date3), WS,
          Alt(<<Lit("to"), Chr({ENDASH}), Chr({"-"}), Lit("through")>>), WS,
          Grp(2, Date3)>>),
    \* Statement\s*(?:Period|Date)[\s:]*(date)\s*(?:to|-|-)\s*(date)
    Cat(<<Lit("Statement"), WS, Alt(<<Lit("Period"), Lit("Date")>>), WSColon,
          Grp(1, Date3), WS,
          Alt(<<Lit("to"), Chr({ENDASH}), Chr({"-"})>>), WS,
          Grp(2, Date3)>>),
    \* From[\s:]*(date)\s*To[\s:]*(date)
    Cat(<<Lit("From"), WSColon, Grp(1, Date3), WS, Lit("To"), WSColon,
          Grp(2, Date3)>>) >>

DueDatePatterns == <<
    \* (?:Payment\s*)?Due\s*(?:Date|By|On)[\s:]*(\d{1,2}[-/]\w{3,}[-/]\d{2,4})
    Cat(<<Opt(Cat(<<Lit("Payment"), WS>>)), Lit("Due"), WS,
          Alt(<<Lit("Date"), Lit("By"), Lit("On")>>), WSColon,
          Grp(1, Date3Plus)>>),
    \* Pay\s*(?:By|Before)[\s:]*(\d{1,2}[-/]\w{3,}[-/]\d{2,4})
    Cat(<<Lit("Pay"), WS, Alt(<<Lit("By"), Lit("Before")>>), WSColon,
          Grp(1, Date3Plus)>>),
    \* Due\s*Date[\s:]*(\d{1,2}[-/]\d{1,2}[-/]\d{2,4})
    Cat(<<Lit("Due"), WS, Lit("Date"), WSColon, Grp(1, DateNum)>>) >>

\* (?:Rs\.?|INR|rupee sign)?
Currency == Opt(Alt(<<Cat(<<Lit("Rs"), Opt(Chr({"."}))>>), Lit("INR"), Chr({RUPEE})>>))
\* ([\d,]+\.?\d*)
Amount == Grp(1, Cat(<<Plus(Chr(ClassD \cup {","})), Opt(Chr({"."})), Star(Chr(ClassD))>>))

TotalDuePatterns == <<
    \* (?:Total\s*(?:Amount\s*)?Due|Amount\s*Payable|Total\s*Balance\s*Due)[\s:]*cur\s*amt
    Cat(<<Alt(<<Cat(<<Lit("Total"), WS, Opt(Cat(<<Lit("Amount"), WS>>)), Lit("Due")>>),
                Cat(<<Lit("Amount"), WS, Lit("Payable")>>),
                Cat(<<Lit("Total"), WS, Lit("Balance"), WS, Lit("Due")>>)>>),
          WSColon, Currency, WS, Amount>>),
    \* (?:Minimum\s*)?Amount\s*Due[\s:]*cur\s*amt
    Cat(<<Opt(Cat(<<Lit("Minimum"), WS>>)), Lit("Amount"), WS, Lit("Due"),
          WSColon, Currency, WS, Amount>>),
    \* (?:Outstanding|Payable)\s*(?:Amount|Balance)[\s:]*cur\s*amt
    Cat(<<Alt(<<Lit("Outstanding"), Lit("Payable")>>), WS,
          Alt(<<Lit("Amount"), Lit("Balance")>>),
          WSColon, Currency, WS, Amount>>) >>

(***************************************************************************)
(* The extractors, as functions of the text: the value stored in the       *)
(* record (stored) and the value returned by the call (ret).               *)
(***************************************************************************)
UNKNOWN == Chars("UNKNOWN")
NotFound == Chars("Not Found")

\* a variant of FirstMatch: the last pattern of the list that matches wins
RECURSIVE LastMatch(_, _, _)
LastMatch(patterns, text, k) ==
    IF k > Len(patterns) THEN [ok |-> FALSE, idx |-> 0, caps |-> <<>>]
    ELSE LET later == LastMatch(patterns, text, k + 1)
             m == Search(patterns[k], text, TRUE)
         IN IF later.ok THEN later
            ELSE IF m.ok THEN [ok |-> TRUE, idx |-> k, caps |-> m.caps]
            ELSE later

\* for pattern in patterns: match = re.search(pattern, text, re.IGNORECASE);
\* if match: ...return.  k is the index of the pattern tried next.
RECURSIVE FirstMatch(_, _, _)
FirstMatch(patterns, text, k) ==
    IF k > Len(patterns) THEN [ok |-> FALSE, idx |-> 0, caps |-> <<>>]
    ELSE LET m == Search(patterns[k], text, TRUE)
         IN IF m.ok THEN [ok |-> TRUE, idx |-> k, caps |-> m.caps]
            ELSE FirstMatch(patterns, text, k + 1)

\* a variant of IssuerLoop: re.search without re.IGNORECASE
RECURSIVE IssuerLoopCaseSensitive(_, _)
IssuerLoopCaseSensitive(text, k) ==
    IF k > Len(ISSUERS) THEN [stored |-> UNKNOWN, ret |-> None]
    ELSE IF Search(ISSUERS[k].pattern, text, FALSE).ok
         THEN [stored |-> ISSUERS[k].issuer, ret |-> ISSUERS[k].issuer]
         ELSE IssuerLoopCaseSensitive(text, k + 1)

RECURSIVE IssuerLoop(_, _)
IssuerLoop(text, k) ==
    IF k > Len(ISSUERS) THEN [stored |-> UNKNOWN, ret |-> None]
    ELSE IF Search(ISSUERS[k].pattern, text, TRUE).ok
         THEN [stored |-> ISSUERS[k].issuer, ret |-> ISSUERS[k].issuer]
         ELSE IssuerLoop(text, k + 1)

detect_issuer(text) == IssuerLoop(text, 1)

\* a variant of extract_last_4_digits: the sentinel is returned as well
extract_last_4_digits_ReturnsSentinel(text) ==
    LET f == FirstMatch(Last4Patterns, text, 1)
    IN IF f.ok THEN [stored |-> f.caps[1], ret |-> f.caps[1]]
       ELSE [stored |-> NotFound, ret |-> NotFound]

extract_last_4_digits(text) ==
    LET f == FirstMatch(Last4Patterns, text, 1)
    IN IF f.ok THEN [stored |-> f.caps[1], ret |-> f.caps[1]]
       ELSE [stored |-> NotFound, ret |-> None]

extract_billing_cycle(text) ==
    LET f == FirstMatch(BillingPatterns, text, 1)
        cycle == f.caps[1] \o Chars(" to ") \o f.caps[2]
    IN IF f.ok THEN [stored |-> cycle, ret |-> cycle]
       ELSE [stored |-> NotFound, ret |-> None]

\* a variant of extract_due_date: without the assignment of the sentinel
extract_due_date_NoSentinel(text) ==
    LET f == FirstMatch(DueDatePatterns, text, 1)
    IN IF f.ok THEN [stored |-> f.caps[1], ret |-> f.caps[1]]
       ELSE [stored |-> None, ret |-> None]

extract_due_date(text) ==
    LET f == FirstMatch(DueDatePatterns, text, 1)
    IN IF f.ok THEN [stored |-> f.caps[1], ret |-> f.caps[1]]
       ELSE [stored |-> NotFound, ret |-> None]

extract_total_due(text) ==
    LET f == FirstMatch(TotalDuePatterns, text, 1)
        amount == StripCommas(f.caps[1])
    IN IF f.ok THEN [stored |-> <<RUPEE>> \o amount, ret |-> amount]
       ELSE [stored |-> NotFound, ret |-> None]

(***************************************************************************)
(* Inputs: the texts a page can yield and the names of the documents.      *)
(***************************************************************************)
\* page texts of the document of a single-file run
FilePages == {
    <<>>,
    Chars("HDFC Bank **** 5678"),
    Chars("icici bank Card ending in 4321"),
    Chars("AMEX Card No: XXXX 1234"),
    Chars("State Bank 1-Jan-24 to 9-Jan-24"),
    Chars("AXIS BANK From: 3-Mar-24 To: 2-Apr-24"),
    Chars("Due Date: 5-Feb-24"),
    Chars("Pay By 7-Mar-24"),
    Chars("Due Date: 5/2/24"),
    Chars("Total Due: Rs. 12,34,567.89"),
    Chars("Amount Due INR 500"),
    Chars("Payable Amount ") \o <<RUPEE>> \o Chars("1,000") }

\* page texts of the documents of a directory run
DirPages == {
    <<>>,
    Chars("HDFC Bank Card ending in 4321 Total Amount Due: Rs. 12,345.67 Due Date: 05-Feb-2024") }

\* the names (stems) a document can have
DocNames == <<"a", "parsing_summary", "b", "c">>

\* the names of the document of a single-file run
FileNames == {"statement"}

\* the sequences of n distinct names among the first MaxDocs names
Listings(n) ==
    {l \in [1..n -> {DocNames[i] : i \in 1..MaxDocs}] :
        \A i, j \in 1..n : i # j => l[i] # l[j]}

PdfPath(stem) == [stem |-> stem, suffix |-> "pdf"]
\* Path.with_suffix('.json')
WithSuffixJson(path) == [path EXCEPT !.suffix = "json"]
\* pdf_dir / 'parsing_summary.json'
SummaryPath == [stem |-> "parsing_summary", suffix |-> "json"]

(***************************************************************************)
(* State.                                                                  *)
(***************************************************************************)
VARIABLES
    mode,        \* "dir": main on a directory; "file": main on one document
    pc,          \* position of the single thread of control
    pdf_files,   \* parse_multiple_statements: the listing of the directory
    idx,         \* parse_multiple_statements: index of the loop over pdf_files
    results,     \* parse_multiple_statements: the summary entries so far
    pdf_path,    \* parser.pdf_path
    text,        \* parser.text
    data,        \* parser.data
    npages,      \* number of pages of the opened document
    text_parts,  \* extract_text: the page texts collected so far
    handles,     \* number of document handles that are open
    parsed,      \* the value parse() returned
    calls,       \* the extractor calls of the current parse, with their returns
    attempts,    \* the documents handed to pdfplumber.open, with the outcome
                 \* of extract_text and the exception it reported
    files        \* the files written, in order, and by which statement

vars == <<mode, pc, pdf_files, idx, results, pdf_path, text, data, npages,
          text_parts, handles, parsed, calls, attempts, files>>

Fields == {"card_issuer", "last_4_digits", "billing_cycle", "due_date", "total_due"}

\* self.data of __init__
EmptyData == [f \in Fields |-> None]

\* an optional record: parse() returns self.data or None
NoRecord == [none |-> TRUE, data |-> EmptyData]
Record(d) == [none |-> FALSE, data |-> d]
\* the truth value of `if data:`: None and the empty dict are false
Truthy(r) == ~r.none /\ DOMAIN r.data # {}

MaxPagesOf(m) == IF m = "dir" THEN MaxPages ELSE MaxFilePages
PagesOf(m) == IF m = "dir" THEN DirPages ELSE FilePages

InitCommon ==
    /\ pc = "start"
    /\ pdf_files = <<>>
    /\ idx = 0
    /\ results = <<>>
    /\ pdf_path = PdfPath("")
    /\ text = <<>>
    /\ data = EmptyData
    /\ npages = 0
    /\ text_parts = <<>>
    /\ handles = 0
    /\ parsed = NoRecord
    /\ calls = <<>>
    /\ attempts = <<>>
    /\ files = <<>>

Init == mode = "dir" /\ InitCommon
InitFile == mode = "file" /\ InitCommon

(***************************************************************************)
(* CreditCardParser.                                                       *)
(***************************************************************************)
\* __init__(pdf_path)
NewParser(path) ==
    /\ pdf_path' = path
    /\ text' = <<>>
    /\ data' = EmptyData
    /\ calls' = <<>>
    /\ parsed' = NoRecord

\* the last entry of attempts gets the outcome of extract_text and the
\* exception of the "Error reading PDF" message, if any
Outcome(log, status, error) ==
    [log EXCEPT ![Len(log)].status = status, ![Len(log)].error = error]

\* a variant of OpenFails: parse() goes on after extract_text returned False
OpenFailsIgnored ==
    /\ pc = "parse"
    /\ attempts' = Append(attempts, [path |-> pdf_path, status |-> "failed",
                                     error |-> "open"])
    /\ pc' = "detect"
    /\ UNCHANGED <<mode, pdf_files, idx, results, pdf_path, text, data, npages,
                   text_parts, handles, parsed, calls, files>>

\* extract_text: pdfplumber.open raises; the except clause returns False and
\* parse returns None
OpenFails ==
    /\ pc = "parse"
    /\ attempts' = Append(attempts, [path |-> pdf_path, status |-> "failed",
                                     error |-> "open"])
    /\ parsed' = NoRecord
    /\ pc' = "parsed"
    /\ UNCHANGED <<mode, pdf_files, idx, results, pdf_path, text, data, npages,
                   text_parts, handles, calls, files>>

\* extract_text: pdfplumber.open returns a document of n pages
OpenOk ==
    /\ pc = "parse"
    /\ \E n \in 0..MaxPagesOf(mode) : npages' = n
    /\ attempts' = Append(attempts, [path |-> pdf_path, status |-> "open",
                                     error |-> ""])
    /\ handles' = handles + 1
    /\ text_parts' = <<>>
    /\ pc' = "pages"
    /\ UNCHANGED <<mode, pdf_files, idx, results, pdf_path, text, data, parsed,
                   calls, files>>

\* extract_text: text_parts.append(page.extract_text()); a page without text
\* yields None
ExtractPage ==
    /\ pc = "pages"
    /\ Len(text_parts) < npages
    /\ \E t \in PagesOf(mode) \cup {None} : text_parts' = Append(text_parts, t)
    /\ UNCHANGED <<mode, pc, pdf_files, idx, results, pdf_path, text, data,
                   npages, handles, parsed, calls, attempts, files>>

\* a variant of PageRaises: the document is not closed on an exception
PageRaisesLeaks ==
    /\ pc = "pages"
    /\ Len(text_parts) < npages
    /\ attempts' = Outcome(attempts, "failed", "page")
    /\ parsed' = NoRecord
    /\ pc' = "parsed"
    /\ UNCHANGED <<mode, pdf_files, idx, results, pdf_path, text, data, npages,
                   text_parts, handles, calls, files>>

\* extract_text: page.extract_text() raises; the with statement closes the
\* document, the except clause returns False and parse returns None
PageRaises ==
    /\ pc = "pages"
    /\ Len(text_parts) < npages
    /\ handles' = handles - 1
    /\ attempts' = Outcome(attempts, "failed", "page")
    /\ parsed' = NoRecord
    /\ pc' = "parsed"
    /\ UNCHANGED <<mode, pdf_files, idx, results, pdf_path, text, data, npages,
                   text_parts, calls, files>>

\* extract_text: self.text = '\n'.join(text_parts), which raises TypeError on
\* a None; either way the with statement closes the document
JoinText ==
    /\ pc = "pages"
    /\ Len(text_parts) = npages
    /\ handles' = handles - 1
    /\ IF JoinRaises(text_parts)
       THEN /\ attempts' = Outcome(attempts, "failed", "TypeError")
            /\ parsed' = NoRecord
            /\ pc' = "parsed"
            /\ UNCHANGED text
       ELSE /\ attempts' = Outcome(attempts, "ok", "")
            /\ text' = JoinNL(text_parts)
            /\ pc' = "detect"
            /\ UNCHANGED parsed
    /\ UNCHANGED <<mode, pdf_files, idx, results, pdf_path, data, npages,
                   text_parts, calls, files>>

\* one extractor call of parse: it stores into field and control goes to next
Extractor(at, fn, field, r, next) ==
    /\ pc = at
    /\ data' = [data EXCEPT ![field] = r.stored]
    /\ calls' = Append(calls, [fn |-> fn, ret |-> r.ret])
    /\ pc' = next
    /\ parsed' = IF next = "parsed" THEN Record(data') ELSE parsed
    /\ UNCHANGED <<mode, pdf_files, idx, results, pdf_path, text, npages,
                   text_parts, handles, attempts, files>>

\* a variant of DetectIssuer: parse() returns when the issuer is unknown
DetectIssuerStopsOnUnknown ==
    Extractor("detect", "detect_issuer", "card_issuer", detect_issuer(text),
              IF detect_issuer(text).ret = None THEN "parsed" ELSE "last4")

DetectIssuer ==
    Extractor("detect", "detect_issuer", "card_issuer", detect_issuer(text), "last4")
ExtractLast4 ==
    Extractor("last4", "extract_last_4_digits", "last_4_digits",
              extract_last_4_digits(text), "billing")
ExtractBillingCycle ==
    Extractor("billing", "extract_billing_cycle", "billing_cycle",
              extract_billing_cycle(text), "due")
ExtractDueDate ==
    Extractor("due", "extract_due_date", "due_date", extract_due_date(text), "total")
\* the last extractor; parse then returns self.data
ExtractTotalDue ==
    Extractor("total", "extract_total_due", "total_due", extract_total_due(text),
              "parsed")

\* save_json(): json.dump(self.data) to pdf_path.with_suffix('.json')
save_json(log) ==
    Append(log, [by |-> "save_json", path |-> WithSuffixJson(pdf_path),
                 content |-> data])

(***************************************************************************)
(* parse_multiple_statements.                                              *)
(***************************************************************************)
\* pdf_files = list(pdf_dir.glob('*.pdf')); without a file the function
\* prints a message and returns
Glob ==
    /\ pc = "start"
    /\ mode = "dir"
    /\ \E n \in 0..MaxDocs : \E l \in Listings(n) : pdf_files' = l
    /\ IF pdf_files' = <<>>
       THEN pc' = "returned" /\ UNCHANGED <<idx, results>>
       ELSE pc' = "loop" /\ idx' = 1 /\ results' = <<>>
    /\ UNCHANGED <<mode, pdf_path, text, data, npages, text_parts, handles,
                   parsed, calls, attempts, files>>

\* for pdf_file in pdf_files: parser = CreditCardParser(pdf_file)
LoopNext ==
    /\ pc = "loop"
    /\ idx <= Len(pdf_files)
    /\ NewParser(PdfPath(pdf_files[idx]))
    /\ pc' = "parse"
    /\ UNCHANGED <<mode, pdf_files, idx, results, npages, text_parts, handles,
                   attempts, files>>

\* a variant of Collect: save_json() is called outside the `if data:`
CollectSavesAlways ==
    /\ pc = "parsed"
    /\ mode = "dir"
    /\ results' = IF Truthy(parsed)
                  THEN Append(results, [filename |-> pdf_path, data |-> parsed.data])
                  ELSE results
    /\ files' = Append(files, [by |-> "save_json", path |-> WithSuffixJson(pdf_path),
                               content |-> data])
    /\ idx' = idx + 1
    /\ pc' = "loop"
    /\ UNCHANGED <<mode, pdf_files, pdf_path, text, data, npages, text_parts,
                   handles, parsed, calls, attempts>>

\* data = parser.parse(); if data: results.append(...); parser.save_json()
Collect ==
    /\ pc = "parsed"
    /\ mode = "dir"
    /\ IF Truthy(parsed)
       THEN /\ results' = Append(results, [filename |-> pdf_path, data |-> parsed.data])
            /\ files' = save_json(files)
       ELSE UNCHANGED <<results, files>>
    /\ idx' = idx + 1
    /\ pc' = "loop"
    /\ UNCHANGED <<mode, pdf_files, pdf_path, text, data, npages, text_parts,
                   handles, parsed, calls, attempts>>

\* a variant of WriteSummary: the summary is written only if it has entries
WriteSummaryIfResults ==
    /\ pc = "loop"
    /\ idx > Len(pdf_files)
    /\ files' = IF results # <<>>
                THEN Append(files, [by |-> "summary", path |-> SummaryPath,
                                    content |-> results])
                ELSE files
    /\ pc' = "returned"
    /\ UNCHANGED <<mode, pdf_files, idx, results, pdf_path, text, data, npages,
                   text_parts, handles, parsed, calls, attempts>>

\* after the loop: json.dump(results) to parsing_summary.json
WriteSummary ==
    /\ pc = "loop"
    /\ idx > Len(pdf_files)
    /\ files' = Append(files, [by |-> "summary", path |-> SummaryPath,
                               content |-> results])
    /\ pc' = "returned"
    /\ UNCHANGED <<mode, pdf_files, idx, results, pdf_path, text, data, npages,
                   text_parts, handles, parsed, calls, attempts>>

(***************************************************************************)
(* main on a single document.                                              *)
(***************************************************************************)
\* parser = CreditCardParser(path)
FileStart ==
    /\ pc = "start"
    /\ mode = "file"
    /\ \E stem \in FileNames : NewParser(PdfPath(stem))
    /\ pc' = "parse"
    /\ UNCHANGED <<mode, pdf_files, idx, results, npages, text_parts, handles,
                   attempts, files>>

\* data = parser.parse(); if data: parser.save_json()
FileFinish ==
    /\ pc = "parsed"
    /\ mode = "file"
    /\ files' = IF Truthy(parsed) THEN save_json(files) ELSE files
    /\ pc' = "returned"
    /\ UNCHANGED <<mode, pdf_files, idx, results, pdf_path, text, data, npages,
                   text_parts, handles, parsed, calls, attempts>>

\* a directory run
Next ==
    \/ Glob
    \/ LoopNext
    \/ OpenFails
    \/ OpenOk
    \/ ExtractPage
    \/ PageRaises
    \/ JoinText
    \/ DetectIssuer
    \/ ExtractLast4
    \/ ExtractBillingCycle
    \/ ExtractDueDate
    \/ ExtractTotalDue
    \/ Collect
    \/ WriteSummary

Spec == Init /\ [][Next]_vars

\* a single-file run
NextFile ==
    \/ FileStart
    \/ OpenFails
    \/ OpenOk
    \/ ExtractPage
    \/ PageRaises
    \/ JoinText
    \/ DetectIssuer
    \/ ExtractLast4
    \/ ExtractBillingCycle
    \/ ExtractDueDate
    \/ ExtractTotalDue
    \/ FileFinish

FileSpec == InitFile /\ [][NextFile]_vars

(***************************************************************************)
(* Vocabulary of the properties.                                           *)
(***************************************************************************)
Matches(re, t) == Search(re, t, TRUE).ok
NoneMatches(ps, t) == \A k \in 1..Len(ps) : ~Matches(ps[k], t)
IssuerPatterns == [k \in 1..Len(ISSUERS) |-> ISSUERS[k].pattern]

Range(q) == {q[k] : k \in 1..Len(q)}
Last(q) == q[Len(q)]

\* a record came back from parse() and control is just behind the call
Returned == pc = "parsed" /\ ~parsed.none

\* indexes of the documents by the outcome of their text extraction
OkDocs == {k \in 1..Len(attempts) : attempts[k].status = "ok"}
FailedDocs == {k \in 1..Len(attempts) : attempts[k].status = "failed"}
\* indexes of the writes of per-document records and of the summary
RecordWrites == {k \in 1..Len(files) : files[k].by = "save_json"}
SummaryWrites == {k \in 1..Len(files) : files[k].by = "summary"}
RecordWritesOf(path) ==
    {k \in RecordWrites : files[k].path = WithSuffixJson(path)}

\* C1: a directory run over N documents whose text extraction succeeds and
\* M whose extraction fails (N + M >= 1) writes exactly N per-document
\* records, one per successful document and none for a failed one, and the
\* summary it writes has exactly N entries, each naming a successful
\* document and none naming a failed one.
C1_BatchCounts ==
    (pc = "returned" /\ pdf_files # <<>>) =>
        /\ Cardinality(RecordWrites) = Cardinality(OkDocs)
        /\ \A k \in OkDocs : Cardinality(RecordWritesOf(attempts[k].path)) = 1
        /\ \A k \in FailedDocs : RecordWritesOf(attempts[k].path) = {}
        /\ \A w \in SummaryWrites :
             /\ Len(files[w].content) = Cardinality(OkDocs)
             /\ \A e \in Range(files[w].content) :
                  /\ \E k \in OkDocs : attempts[k].path = e.filename
                  /\ \A k \in FailedDocs : attempts[k].path # e.filename
        /\ SummaryWrites # {}

\* a finished directory run with a failed document before a successful one
C1_Witness ==
    /\ pc = "returned"
    /\ \E i \in FailedDocs : \E j \in OkDocs : i < j
    /\ Cardinality(RecordWrites) = Cardinality(OkDocs)

\* C2: when text extraction fails (the open fails, a page raises, or a page
\* yields no text), parse() returns no record and no extractor has run, no
\* record is written for the document, the document is not opened again,
\* and the run goes on: at its end every document of the directory has
\* been attempted exactly once.
C2_FailedDocumentSkipped ==
    /\ (pc = "parsed" /\ attempts # <<>> /\ Last(attempts).status = "failed") =>
           parsed.none /\ calls = <<>> /\ data = EmptyData
    /\ \A k \in FailedDocs : RecordWritesOf(attempts[k].path) = {}
    /\ \A i, j \in 1..Len(attempts) :
           i # j => attempts[i].path # attempts[j].path
    /\ (pc = "returned" /\ pdf_files # <<>>) =>
           /\ Len(attempts) = Len(pdf_files)
           /\ \A k \in 1..Len(pdf_files) : attempts[k].path = PdfPath(pdf_files[k])
           /\ \A k \in 1..Len(attempts) : attempts[k].status \in {"ok", "failed"}

\* a finished run in which a page without text failed one document and a
\* later document was still processed
C2_Witness ==
    /\ pc = "returned"
    /\ \E i \in FailedDocs : \E j \in OkDocs :
         i < j /\ attempts[i].error = "TypeError"

\* the field an extractor populates
FieldOf(fn) ==
    CASE fn = "detect_issuer" -> "card_issuer"
      [] fn = "extract_last_4_digits" -> "last_4_digits"
      [] fn = "extract_billing_cycle" -> "billing_cycle"
      [] fn = "extract_due_date" -> "due_date"
      [] fn = "extract_total_due" -> "total_due"

\* the patterns and the sentinel of each field
PatternsOf(f) ==
    CASE f = "card_issuer" -> IssuerPatterns
      [] f = "last_4_digits" -> Last4Patterns
      [] f = "billing_cycle" -> BillingPatterns
      [] f = "due_date" -> DueDatePatterns
      [] f = "total_due" -> TotalDuePatterns
SentinelOf(f) == IF f = "card_issuer" THEN Chars("UNKNOWN") ELSE Chars("Not Found")

\* C3: a record returned by parse() has exactly the five keys and no null
\* value, and a field none of whose patterns matches the text holds its
\* sentinel.
C3_RecordComplete ==
    Returned =>
        /\ DOMAIN parsed.data =
             {"card_issuer", "last_4_digits", "billing_cycle", "due_date", "total_due"}
        /\ \A f \in DOMAIN parsed.data :
             /\ parsed.data[f] # None
             /\ NoneMatches(PatternsOf(f), text) => parsed.data[f] = SentinelOf(f)

\* the record of the empty text: five sentinels
C3_Witness ==
    /\ Returned
    /\ text = <<>>
    /\ \A f \in Fields : parsed.data[f] = SentinelOf(f)

\* the value a capture of each pattern-list field is stored as
StoredAs(f, caps) ==
    CASE f = "last_4_digits" -> caps[1]
      [] f = "billing_cycle" -> caps[1] \o Chars(" to ") \o caps[2]
      [] f = "due_date" -> caps[1]
      [] f = "total_due" -> <<RUPEE>> \o SelectSeq(caps[1], LAMBDA c : c # ",")
\* the value the call returns for that capture
ReturnedAs(f, caps) ==
    IF f = "total_due" THEN SelectSeq(caps[1], LAMBDA c : c # ",")
    ELSE StoredAs(f, caps)
ListFields == {"last_4_digits", "billing_cycle", "due_date", "total_due"}
\* the call of the extractor of field f in the current parse
CallOf(f) == calls[CHOOSE k \in 1..Len(calls) : FieldOf(calls[k].fn) = f]

\* C4: for each pattern-list extractor the result comes from the pattern of
\* smallest index among those that match the text, wherever in the text the
\* patterns match.
C4_EarliestPatternWins ==
    Returned =>
        \A f \in ListFields :
            \A j \in 1..Len(PatternsOf(f)) :
                (/\ Matches(PatternsOf(f)[j], text)
                 /\ \A i \in 1..(j - 1) : ~Matches(PatternsOf(f)[i], text))
                => LET caps == Search(PatternsOf(f)[j], text, TRUE).caps
                   IN /\ parsed.data[f] = StoredAs(f, caps)
                      /\ CallOf(f).ret = ReturnedAs(f, caps)

\* two patterns of the last-4-digits list match with different captures and
\* the later-listed one matches further left in the text
C4_Witness ==
    /\ Returned
    /\ LET early == Search(Last4Patterns[2], text, TRUE)
           late == Search(Last4Patterns[3], text, TRUE)
       IN /\ early.ok /\ late.ok
          /\ ~Matches(Last4Patterns[1], text)
          /\ late.start < early.start
          /\ late.caps[1] # early.caps[1]
          /\ parsed.data.last_4_digits = early.caps[1]

\* C5: card_issuer is the first identifier in the order HDFC, ICICI, SBI,
\* AXIS, AMEX whose pattern matches the text; letter case does not matter.
C5_IssuerOrder ==
    /\ [k \in 1..Len(ISSUERS) |-> ISSUERS[k].issuer] =
         <<Chars("HDFC"), Chars("ICICI"), Chars("SBI"), Chars("AXIS"), Chars("AMEX")>>
    /\ Returned =>
         /\ \A k \in 1..Len(ISSUERS) :
              (/\ Matches(ISSUERS[k].pattern, text)
               /\ \A i \in 1..(k - 1) : ~Matches(ISSUERS[i].pattern, text))
              => parsed.data.card_issuer = ISSUERS[k].issuer
         /\ detect_issuer(UpperStr(text)).stored = parsed.data.card_issuer
         /\ detect_issuer(LowerStr(text)).stored = parsed.data.card_issuer

\* the text names ICICI in lower case before it names HDFC: HDFC is stored
C5_Witness ==
    /\ Returned
    /\ LET h == Search(ISSUERS[1].pattern, text, TRUE)
           i == Search(ISSUERS[2].pattern, text, TRUE)
       IN h.ok /\ i.ok /\ i.start < h.start
    /\ text # UpperStr(text)
    /\ parsed.data.card_issuer = Chars("HDFC")

\* C6, as claimed: an extractor none of whose patterns matches returns the
\* sentinel of its field, the value it stores.
C6_ReturnsSentinel ==
    \A k \in 1..Len(calls) :
        NoneMatches(PatternsOf(FieldOf(calls[k].fn)), text) =>
            /\ calls[k].ret = SentinelOf(FieldOf(calls[k].fn))
            /\ calls[k].ret = data[FieldOf(calls[k].fn)]

\* C6, amended: an extractor none of whose patterns matches stores the
\* sentinel of its field in the record and returns None.
C6_StoresSentinelReturnsNone ==
    Returned =>
        \A k \in 1..Len(calls) :
            NoneMatches(PatternsOf(FieldOf(calls[k].fn)), text) =>
                /\ calls[k].ret = None
                /\ data[FieldOf(calls[k].fn)] = SentinelOf(FieldOf(calls[k].fn))

\* all five extractors ran on a text that none of their patterns matches
C6_Witness ==
    /\ Returned
    /\ Len(calls) = 5
    /\ \A k \in 1..Len(calls) :
         /\ NoneMatches(PatternsOf(FieldOf(calls[k].fn)), text)
         /\ calls[k].ret = None

\* C7: when a total-due pattern matches, extract_total_due returns the
\* captured token without its commas and without a currency glyph, the
\* record holds the glyph followed by the returned value, and stripping
\* commas from the returned value changes nothing.
C7_TotalDueNormalised ==
    (Returned /\ ~NoneMatches(TotalDuePatterns, text)) =>
        LET token == FirstMatch(TotalDuePatterns, text, 1).caps[1]
            ret == Last(calls).ret
        IN /\ Last(calls).fn = "extract_total_due"
           /\ ret = SelectSeq(token, LAMBDA c : c # ",")
           /\ "," \notin Range(ret)
           /\ RUPEE \notin Range(ret)
           /\ parsed.data.total_due = <<RUPEE>> \o ret
           /\ StripCommas(ret) = ret

\* a captured amount with several commas
C7_Witness ==
    /\ Returned
    /\ parsed.data.total_due = <<RUPEE>> \o Chars("1234567.89")
    /\ Last(calls).ret = Chars("1234567.89")

\* the extractors in the order of parse(), with the position each runs at
ExtractorOrder ==
    <<"detect_issuer", "extract_last_4_digits", "extract_billing_cycle",
      "extract_due_date", "extract_total_due">>
ExtractorPcs == <<"detect", "last4", "billing", "due", "total">>

\* C8: once the text is extracted, every step of parse() is the next
\* extractor of the fixed order, whatever the earlier ones produced: it
\* runs once, populates its own field with a value, leaves the other fields
\* alone and hands over to the following extractor; after the fifth the
\* record is returned.
C8_ExtractorsInOrder ==
    [][\A k \in 1..5 :
          pc = ExtractorPcs[k] =>
              /\ Len(calls) = k - 1
              /\ Len(calls') = k
              /\ \A i \in 1..k : calls'[i].fn = ExtractorOrder[i]
              /\ \A i \in 1..(k - 1) : calls'[i] = calls[i]
              /\ data'[FieldOf(ExtractorOrder[k])] # None
              /\ \A f \in Fields \ {FieldOf(ExtractorOrder[k])} : data'[f] = data[f]
              /\ \A i \in (k + 1)..5 : data'[FieldOf(ExtractorOrder[i])] = None
              /\ pc' = IF k = 5 THEN "parsed" ELSE ExtractorPcs[k + 1]
              /\ k = 5 => parsed' = Record(data')]_vars

\* an unknown issuer and no card number, and still a due date is found
C8_Witness ==
    /\ Returned
    /\ Len(calls) = 5
    /\ parsed.data.card_issuer = Chars("UNKNOWN")
    /\ parsed.data.last_4_digits = Chars("Not Found")
    /\ parsed.data.due_date # Chars("Not Found")

\* C9: the document handle is open only while extract_text reads pages: it
\* is closed before any extractor runs and also when a page fails after
\* the open; no handle is open after parse() returns, and never two at
\* once.
C9_HandleReleased ==
    /\ handles \in {0, 1}
    /\ handles = 1 => pc = "pages"
    /\ pc = "pages" => handles = 1

\* parse() has returned after a page failed in an opened document
C9_Witness ==
    /\ pc = "parsed"
    /\ parsed.none
    /\ Last(attempts).error = "page"
    /\ Len(text_parts) >= 1
    /\ handles = 0

\* the summary is the last file written and lists, in processing order, the
\* successful documents with the records written for them
SummaryIsFinal ==
    /\ Cardinality(SummaryWrites) = 1
    /\ Last(files).by = "summary"
    /\ Last(files).path = SummaryPath
    /\ LET entries == Last(files).content
           ok == SelectSeq(attempts, LAMBDA a : a.status = "ok")
       IN /\ Len(entries) = Len(ok)
          /\ Len(attempts) = Len(pdf_files)
          /\ \A k \in 1..Len(entries) :
               /\ DOMAIN entries[k] = {"filename", "data"}
               /\ entries[k].filename = ok[k].path
               /\ files[k].by = "save_json"
               /\ files[k].path = WithSuffixJson(ok[k].path)
               /\ entries[k].data = files[k].content

\* C10, as claimed: every directory run, also one over a directory without
\* any document, writes the summary exactly once, at its end.
C10_SummaryAlwaysWritten ==
    pc = "returned" => SummaryIsFinal

\* C10, amended: a directory run over at least one document writes the
\* summary exactly once, after every document has been processed, with the
\* entries of the successful documents in processing order (an empty list
\* when every document is unreadable); a run over a directory without any
\* document writes no summary.
C10_SummaryWrittenOnce ==
    /\ (pc = "returned" /\ pdf_files # <<>>) => SummaryIsFinal
    /\ (pc = "returned" /\ pdf_files = <<>>) => files = <<>>
    /\ pc # "returned" => SummaryWrites = {}

\* a finished run over a directory whose documents are all unreadable
C10_Witness ==
    /\ pc = "returned"
    /\ Len(pdf_files) >= 2
    /\ OkDocs = {}
    /\ Last(files).content = <<>>

====
